---- MODULE Spec2Model ----
(***************************************************************************)
(* Playback / transport engine of src/gui_player.py (CyberReverseEngine,   *)
(* NeonWaveform, SweepIndicator, ReverseWorker, TempoWorker).              *)
(*                                                                         *)
(* Two execution contexts are modelled:                                    *)
(*   - the Qt UI thread, whose handlers (slots, timers, mouse events) run  *)
(*     one at a time; each handler is one action, except toggle_play's     *)
(*     stop branch, which blocks inside stream.stop() until the callback   *)
(*     in flight has returned (ui_pc = "stopping");                        *)
(*   - the audio device thread running audio_callback, split at its reads  *)
(*     and its write of the shared attributes (cb_pc), so that UI handlers *)
(*     interleave between "start = self.play_idx" and                      *)
(*     "self.play_idx = ...".                                              *)
(*                                                                         *)
(* Spec is the transport: buffer handlers, playback and seeking.  WaveSpec  *)
(* is the waveform widget (envelope, zoom, seek) with the handlers that    *)
(* replace the buffer, over longer files.  TempoSpec is the BPM field and  *)
(* the metronome.  PlaySpec is playback with the sweep indicator and the   *)
(* metronome beside it; RunSpec is playback alone, with the device thread  *)
(* scheduled fairly.  All start from the state after construction.         *)
(*                                                                         *)
(* Audio buffers are mono: a buffer is a sequence of integer samples.      *)
(* The log widget and the styling calls are not state of the engine.       *)
(***************************************************************************)
EXTENDS Integers, Sequences, FiniteSets, Bags, TLC

\* ---------------------------------------------------------------- bounds
\* length of the longest audio file, in samples
MaxLen == 3
\* largest number of frames the device asks for in one callback
MaxFrames == 2
\* width of the waveform widget, in pixels
WidgetWidth == 2
\* most output streams that may be open (not closed) at once
MaxStreams == 2
\* most worker threads of each kind whose result is not yet delivered
MaxJobs == 1
\* length of the longest audio file of the waveform specification, in samples
MaxPeaks == 20
\* most TempoWorkers of the tempo specification whose result is not yet
\* delivered
MaxTempoJobs == 2
\* number of distinguished sweep phases: progress = k / PhaseSteps
PhaseSteps == 2

\* ------------------------------------------------------------- constants
\* QLineEdit("120"): the BPM field's initial text
DefaultBpmText == 120
\* SweepIndicator.bpm initial value and fallback
SweepDefaultBpm == 120
\* TempoWorker's fixed default on failure or short signal
TempoDefault == 120
\* "samples = 2000" in set_waveform
PeakSamples == 2000

\* ---------------------------------------------------------------- values
Min(a, b) == IF a < b THEN a ELSE b
Max(a, b) == IF a > b THEN a ELSE b

\* self.current_audio / self.original_audio: None, or a numpy array
NoAudio == [loaded |-> FALSE, data |-> << >>]
Audio(d) == [loaded |-> TRUE, data |-> d]

\* the decoded content of an audio file of n samples (librosa.load)
FileData(n) == [i \in 1..n |-> i]
\* an empty file and a file of MaxLen samples
Files == { FileData(n) : n \in {0, MaxLen} }

\* the files of the waveform specification: long enough for a zoom window
\* of several peaks
WaveFiles == { FileData(n) : n \in {0, MaxLen, MaxPeaks} }

\* the sample value that stands for amplitude 1.0: the samples of FileData
\* lie below full scale
FullScale == MaxPeaks + 2

\* frame counts the device may request
FrameCounts == 1..MaxFrames

\* pointer x coordinates delivered with a mouse event
PointerXs == (0 - 1)..(WidgetWidth + 1)

\* BPM values are held in thousandths of a beat per minute
Milli(b) == 1000 * b

\* self.bpm_in.text(): a text that float() parses, with its value, or one
\* that makes float() raise ValueError
Text(v) == [numeric |-> TRUE, val |-> v]
NotANumber == [numeric |-> FALSE, val |-> 0]

\* BPM values a tempo estimate may take: the fixed default, or an estimate
\* with more than two decimals
TempoValues == {Milli(TempoDefault), Milli(90) + 126}

\* float("inf"), the value of a BPM text such as "inf" or "1e999": the
\* largest integer
Infinity == 2147483647

\* float("nan"), which lies in no interval
NaN == 0 - 1

\* texts the user may type into the BPM field during playback
PlayTexts == {Text(Milli(40)), Text(Infinity)}

\* texts the user may type into the BPM field
TypedTexts == {Text(Milli(40)), Text(0), Text(Milli(0 - 40)), NotANumber}

Modes == {"TRUE_REVERSE"}

\* process_audio(**params): the transform applied by ReverseWorker.run
Reverse(s) == [i \in 1..Len(s) |-> s[Len(s) + 1 - i]]
process_audio(audio, mode) == Reverse(audio)

\* numpy slice a[lo:hi] for 0 <= lo, 0 <= hi (0-based, hi exclusive)
Slice(a, lo, hi) == SubSeq(a, lo + 1, Min(hi, Len(a)))

Zeros(k) == [i \in 1..k |-> 0]

Abs(v) == IF v < 0 THEN 0 - v ELSE v

RECURSIVE SeqMax(_)
SeqMax(s) == IF Len(s) = 1 THEN s[1] ELSE Max(s[1], SeqMax(Tail(s)))

\* ---------------------------------------------------------------- state
VARIABLES
    original_audio,   \* self.original_audio
    current_audio,    \* self.current_audio
    stream,           \* self.stream: "None", or the state of the stream object
                      \* ("created", "active", "finished", "closed")
    open_streams,     \* output streams opened and not closed (device resource)
    play_idx,         \* self.play_idx
    play_timer,       \* self.play_timer.isActive()
    play_btn,         \* self.play_btn.text()
    bpm_in,           \* self.bpm_in.text()
    sweep_bpm,        \* self.sweep.bpm
    sweep_timer,      \* self.sweep.timer.isActive()
    sweep_progress,   \* self.sweep.progress
    peaks,            \* self.waveform.peaks (None before the first load)
    audio_len,        \* self.waveform.audio_len
    zoom_active,      \* self.waveform.zoom_active
    sel_start,        \* self.waveform.sel_start
    sel_end,          \* self.waveform.sel_end
    playhead_pos,     \* int(self.waveform.playhead_pos), the painted column
    tempo_pending,    \* TempoWorkers started, tempo_ready not yet delivered
    tempo_fresh,      \* the worker of the last load_file (self.tempo_worker) is
                      \* one of them; the others analyse a replaced buffer
    rev_pending,      \* bag of ReverseWorker params, finished not yet delivered
    ui_pc,            \* UI thread: "idle", or "stopping" inside stream.stop()
    cb_pc,            \* device thread: position inside audio_callback
    cb_audio,         \* audio_callback local: audio
    cb_frames,        \* audio_callback argument: frames
    cb_start,         \* audio_callback local: start
    outdata,          \* the output block of the callback in progress
    click_enabled,    \* self.click_enabled; click_timer is active exactly then
    click_interval,   \* self.click_timer.interval(), in ms
    h_fallback,       \* history: the buffer was last replaced by the delivery
                      \* of an "ERROR_FALLBACK" result
    running,          \* the window is open (closeEvent not yet accepted)
    h_clean,          \* history: no seek, stop or buffer replacement since the last start
    h_frames          \* history: frames requested by the callbacks returned since then

vars == << original_audio, current_audio, stream, open_streams, play_idx,
           play_timer, play_btn, bpm_in, sweep_bpm, sweep_timer,
           sweep_progress, peaks, audio_len, zoom_active, sel_start, sel_end,
           playhead_pos, tempo_pending, tempo_fresh, rev_pending, ui_pc, cb_pc,
           cb_audio, cb_frames, cb_start, outdata, running, h_clean,
           h_frames, click_enabled, click_interval, h_fallback >>

audio_vars == << original_audio, current_audio >>
wave_vars == << peaks, audio_len, zoom_active, sel_start, sel_end >>
sweep_vars == << sweep_bpm, sweep_timer, sweep_progress >>
worker_vars == << tempo_pending, tempo_fresh, rev_pending >>
cb_vars == << cb_pc, cb_audio, cb_frames, cb_start, outdata >>
hist_vars == << h_clean, h_frames >>
metro_vars == << click_enabled, click_interval >>
fb_vars == << h_fallback >>

\* stream.active of the stream object self.stream refers to
StreamActive == stream = "active"

Init ==
    /\ original_audio = NoAudio
    /\ current_audio = NoAudio
    /\ stream = "None"
    /\ open_streams = 0
    /\ play_idx = 0
    /\ play_timer = FALSE
    /\ play_btn = "Initialize Playback"
    /\ bpm_in = Text(Milli(DefaultBpmText))
    /\ sweep_bpm = Milli(SweepDefaultBpm)
    /\ sweep_timer = TRUE
    /\ sweep_progress = 0
    /\ peaks = NoAudio
    /\ audio_len = 0
    /\ zoom_active = FALSE
    /\ sel_start = 0
    /\ sel_end = 0
    /\ playhead_pos = 0
    /\ tempo_pending = 0
    /\ tempo_fresh = FALSE
    /\ rev_pending = EmptyBag
    /\ ui_pc = "idle"
    /\ cb_pc = "idle"
    /\ cb_audio = << >>
    /\ cb_frames = 0
    /\ cb_start = 0
    /\ outdata = << >>
    /\ running = TRUE
    /\ h_clean = FALSE
    /\ h_frames = 0
    /\ click_enabled = FALSE
    /\ click_interval = 0
    /\ h_fallback = FALSE

\* ------------------------------------------------------------- waveform
\* NeonWaveform.set_waveform: the per-window maxima of |sample|
WindowStep(n) == Max(1, n \div PeakSamples)

PeakEnvelope(audio) ==
    LET step == WindowStep(Len(audio))
        count == (Len(audio) + step - 1) \div step
    IN  [w \in 1..count |->
            SeqMax([j \in 1..Len(Slice(audio, (w - 1) * step, w * step)) |->
                        Abs(Slice(audio, (w - 1) * step, w * step)[j])])]

total_peaks == Len(peaks.data)

set_waveform(audio) ==
    /\ audio_len' = Len(audio)
    /\ peaks' = Audio(PeakEnvelope(audio))
    /\ zoom_active' = FALSE
    /\ sel_start' = 0
    /\ sel_end' = Len(PeakEnvelope(audio))

\* NeonWaveform.update_playhead(ms) with ms / total_ms = num / den: the
\* column int(ratio * width) that paintEvent draws; unchanged when the
\* waveform holds no samples
PlayheadColumn(num, den) == (num * WidgetWidth) \div den

update_playhead(num, den) ==
    playhead_pos' = IF audio_len = 0 THEN playhead_pos ELSE PlayheadColumn(num, den)

\* SweepIndicator.set_bpm
SweepBpm(v) == IF v > 0 THEN v ELSE Milli(SweepDefaultBpm)

\* "(time.time() * bps) % 1.0" with bps = bpm / 60: any phase in [0, 1)
\* depending on the clock; inf % 1.0 is nan
SweepPhases(bpm) == IF bpm >= Infinity THEN {NaN} ELSE 0..(PhaseSteps - 1)

\* SweepIndicator.animate, the slot of the sweep's 20 ms timer, with the
\* repaint its update() requests: paintEvent's int(self.progress * w) raises
\* on nan, and the exception leaves the virtual method unhandled
animate ==
    /\ running
    /\ ui_pc = "idle"
    /\ sweep_timer
    /\ \E ph \in SweepPhases(sweep_bpm) :
          /\ sweep_progress' = ph
          /\ running' = (ph # NaN)
    /\ UNCHANGED hist_vars
    /\ UNCHANGED metro_vars
    /\ UNCHANGED fb_vars
    /\ UNCHANGED << audio_vars, stream, open_streams, play_idx, play_timer,
                    play_btn, bpm_in, sweep_bpm, sweep_timer, wave_vars,
                    playhead_pos, worker_vars, ui_pc, cb_vars >>

\* "try: bpm = float(self.bpm_in.text()); self.sweep.set_bpm(bpm)
\*  except Exception: pass": the sweep BPM after it
SweepFromText(txt) == IF txt.numeric THEN SweepBpm(txt.val) ELSE sweep_bpm

\* f"{bpm:.2f}" for bpm > 0: the value rounded to hundredths. A decimal tie
\* is rounded half-to-even when the float holds it exactly (a multiple of
\* 1/8); otherwise the float lies just above or just below the tie and
\* either neighbour may result.
Format2(t) ==
    LET r == t % 10
        lo == t - r
        hi == t - r + 10
    IN  IF r < 5 THEN {lo}
        ELSE IF r > 5 THEN {hi}
        ELSE IF t % 125 = 0
        THEN (IF (lo \div 10) % 2 = 0 THEN {lo} ELSE {hi})
        ELSE {lo, hi}

UiIdle == running /\ ui_pc = "idle"

\* history: the run since the last start is no longer an undisturbed one
Interrupted == h_clean' = FALSE /\ h_frames' = 0

\* ------------------------------------------------------- buffer handlers
\* CyberReverseEngine.load_file, for a chosen file with decoded content y;
\* starts a TempoWorker
load_file(y) ==
    /\ UiIdle
    /\ original_audio' = Audio(y)
    /\ current_audio' = Audio(y)
    /\ set_waveform(y)
    /\ tempo_pending' = tempo_pending + 1
    /\ tempo_fresh' = TRUE
    /\ Interrupted
    /\ UNCHANGED metro_vars
    /\ h_fallback' = FALSE
    /\ UNCHANGED << stream, open_streams, play_idx, play_timer, play_btn,
                    bpm_in, sweep_vars, playhead_pos, rev_pending, ui_pc,
                    cb_vars, running >>

\* CyberReverseEngine.on_tempo_detected(bpm), on delivery of the tempo_ready
\* signal of a TempoWorker whose run emitted bpm: the worker of the last
\* load_file, or one started for a buffer that has been replaced since
on_tempo_detected(bpm) ==
    /\ UiIdle
    /\ tempo_pending > 0
    /\ \E latest \in BOOLEAN :
          /\ latest => tempo_fresh
          /\ ~latest => tempo_pending > (IF tempo_fresh THEN 1 ELSE 0)
          /\ tempo_fresh' = (tempo_fresh /\ ~latest)
    /\ \E t \in Format2(bpm) : bpm_in' = Text(t)
    /\ sweep_bpm' = SweepBpm(bpm)
    /\ tempo_pending' = tempo_pending - 1
    /\ UNCHANGED hist_vars
    /\ UNCHANGED metro_vars
    /\ UNCHANGED fb_vars
    /\ UNCHANGED << audio_vars, stream, open_streams, play_idx, play_timer,
                    play_btn, sweep_timer, sweep_progress, wave_vars,
                    playhead_pos, rev_pending, ui_pc, cb_vars, running >>

\* CyberReverseEngine.trigger_process(mode): starts a ReverseWorker on the
\* current buffer (the grid fields hold their valid defaults); returns at
\* once when there is no buffer or the BPM text is not a number
trigger_process(mode) ==
    /\ UiIdle
    /\ current_audio.loaded
    /\ bpm_in.numeric
    /\ BagCardinality(rev_pending) < MaxJobs
    /\ rev_pending' = rev_pending (+) SetToBag({[audio |-> current_audio.data, mode |-> mode]})
    /\ UNCHANGED hist_vars
    /\ UNCHANGED metro_vars
    /\ UNCHANGED fb_vars
    /\ UNCHANGED << audio_vars, stream, open_streams, play_idx, play_timer,
                    play_btn, bpm_in, sweep_vars, wave_vars, playhead_pos,
                    tempo_pending, tempo_fresh, ui_pc, cb_vars, running >>

\* Faulty variant: on failure the worker emits an empty buffer
ReverseWorker_run_EmptyFallback(params, ok) ==
    IF ok THEN [audio |-> process_audio(params.audio, params.mode), mode |-> params.mode]
          ELSE [audio |-> << >>, mode |-> "ERROR_FALLBACK"]

\* ReverseWorker.run: the finished signal it emits for its params: the
\* processed buffer with the mode, or, when the pipeline raises, the buffer
\* it was given with "ERROR_FALLBACK"
ReverseWorker_run(params, ok) ==
    IF ok THEN [audio |-> process_audio(params.audio, params.mode), mode |-> params.mode]
          ELSE [audio |-> params.audio, mode |-> "ERROR_FALLBACK"]

\* CyberReverseEngine.on_rev_done(audio, mode), on delivery of the finished
\* signal of the ReverseWorker started with params
on_rev_done(params, ok) ==
    /\ UiIdle
    /\ params \in BagToSet(rev_pending)
    /\ current_audio' = Audio(ReverseWorker_run(params, ok).audio)
    /\ set_waveform(ReverseWorker_run(params, ok).audio)
    /\ h_fallback' = (ReverseWorker_run(params, ok).mode = "ERROR_FALLBACK")
    /\ rev_pending' = rev_pending (-) SetToBag({params})
    /\ Interrupted
    /\ UNCHANGED metro_vars
    /\ UNCHANGED << original_audio, stream, open_streams, play_idx, play_timer,
                    play_btn, bpm_in, sweep_vars, playhead_pos, tempo_pending, tempo_fresh,
                    ui_pc, cb_vars, running >>

\* CyberReverseEngine.reset_audio
reset_audio ==
    /\ UiIdle
    /\ original_audio.loaded
    /\ current_audio' = original_audio
    /\ set_waveform(original_audio.data)
    /\ Interrupted
    /\ UNCHANGED metro_vars
    /\ h_fallback' = FALSE
    /\ UNCHANGED << original_audio, stream, open_streams, play_idx, play_timer,
                    play_btn, bpm_in, sweep_vars, playhead_pos, worker_vars,
                    ui_pc, cb_vars, running >>

\* ----------------------------------------------------------------- tempo
\* "interval = int(60000 / max(bpm, 1.0))", in ms
ClickInterval(v) == (60000 * 1000) \div Max(v, Milli(1))

\* CyberReverseEngine.refresh_metronome_bpm, with txt the text of the BPM
\* field: while the metronome is enabled and the text is a number, restarts
\* the click timer and sets the sweep BPM
refresh_metronome_bpm(txt) ==
    IF click_enabled /\ txt.numeric
        THEN /\ click_interval' = ClickInterval(txt.val)
             /\ sweep_bpm' = SweepBpm(txt.val)
        ELSE UNCHANGED << click_interval, sweep_bpm >>

\* the user replaces the text of the BPM field by txt and leaves the field:
\* editingFinished calls refresh_metronome_bpm
bpm_in_editingFinished(txt) ==
    /\ UiIdle
    /\ bpm_in' = txt
    /\ refresh_metronome_bpm(txt)
    /\ UNCHANGED hist_vars
    /\ UNCHANGED fb_vars
    /\ UNCHANGED << audio_vars, stream, open_streams, play_idx, play_timer,
                    play_btn, sweep_timer, sweep_progress, wave_vars,
                    playhead_pos, worker_vars, ui_pc, cb_vars, running,
                    click_enabled >>

\* half_bpm: "bpm = max(bpm / 2, 1.0)"
HalfBpm(v) == Max(v \div 2, Milli(1))

\* CyberReverseEngine.half_bpm
half_bpm ==
    /\ UiIdle
    /\ IF bpm_in.numeric
          THEN \E t \in Format2(HalfBpm(bpm_in.val)) :
                  /\ bpm_in' = Text(t)
                  /\ refresh_metronome_bpm(Text(t))
          ELSE UNCHANGED << bpm_in, click_interval, sweep_bpm >>
    /\ UNCHANGED hist_vars
    /\ UNCHANGED fb_vars
    /\ UNCHANGED << audio_vars, stream, open_streams, play_idx, play_timer,
                    play_btn, sweep_timer, sweep_progress, wave_vars,
                    playhead_pos, worker_vars, ui_pc, cb_vars, running,
                    click_enabled >>

\* double_bpm: "bpm = min(bpm * 2, 999.0)"
DoubleBpm(v) == Min(v * 2, Milli(999))

\* the text of the BPM field after double_bpm: the handler computes
\* DoubleBpm but calls setFixedWidth(60), never setText, so the text stays
DoubledText(txt) == txt

\* CyberReverseEngine.double_bpm
double_bpm ==
    /\ UiIdle
    /\ IF bpm_in.numeric
          THEN /\ bpm_in' = DoubledText(bpm_in)
               /\ refresh_metronome_bpm(DoubledText(bpm_in))
          ELSE UNCHANGED << bpm_in, click_interval, sweep_bpm >>
    /\ UNCHANGED hist_vars
    /\ UNCHANGED fb_vars
    /\ UNCHANGED << audio_vars, stream, open_streams, play_idx, play_timer,
                    play_btn, sweep_timer, sweep_progress, wave_vars,
                    playhead_pos, worker_vars, ui_pc, cb_vars, running,
                    click_enabled >>

\* CyberReverseEngine.toggle_metronome
toggle_metronome ==
    /\ UiIdle
    /\ IF ~click_enabled /\ bpm_in.numeric
          THEN /\ click_enabled' = TRUE
               /\ click_interval' = ClickInterval(bpm_in.val)
          ELSE /\ click_enabled' = FALSE
               /\ UNCHANGED click_interval
    /\ UNCHANGED hist_vars
    /\ UNCHANGED fb_vars
    /\ UNCHANGED << audio_vars, stream, open_streams, play_idx, play_timer,
                    play_btn, bpm_in, sweep_vars, wave_vars, playhead_pos,
                    worker_vars, ui_pc, cb_vars, running >>

\* -------------------------------------------------------------- playback
\* CyberReverseEngine.toggle_play, stop branch: the stream is active, and the
\* handler enters stream.stop(), which returns once the callback in flight
\* has returned
toggle_play_stop ==
    /\ UiIdle
    /\ StreamActive
    /\ ui_pc' = "stopping"
    /\ Interrupted
    /\ UNCHANGED metro_vars
    /\ UNCHANGED fb_vars
    /\ UNCHANGED << audio_vars, stream, open_streams, play_idx, play_timer,
                    play_btn, bpm_in, sweep_vars, wave_vars, playhead_pos,
                    worker_vars, cb_vars, running >>

\* Faulty variant: the stop branch also rewinds the cursor
toggle_play_stopped_Rewind ==
    /\ running
    /\ ui_pc = "stopping"
    /\ cb_pc = "idle"
    /\ stream' = "None"
    /\ open_streams' = open_streams - 1
    /\ play_timer' = FALSE
    /\ sweep_timer' = FALSE
    /\ sweep_progress' = 0
    /\ play_btn' = "Initialize Playback"
    /\ ui_pc' = "idle"
    /\ play_idx' = 0
    /\ UNCHANGED hist_vars
    /\ UNCHANGED metro_vars
    /\ UNCHANGED fb_vars
    /\ UNCHANGED << audio_vars, bpm_in, sweep_bpm, wave_vars,
                    playhead_pos, worker_vars, cb_vars, running >>

\* Faulty variant: the stop branch also switches the metronome off
toggle_play_stopped_StopsClick ==
    /\ running
    /\ ui_pc = "stopping"
    /\ cb_pc = "idle"
    /\ stream' = "None"
    /\ open_streams' = open_streams - 1
    /\ play_timer' = FALSE
    /\ sweep_timer' = FALSE
    /\ sweep_progress' = 0
    /\ play_btn' = "Initialize Playback"
    /\ ui_pc' = "idle"
    /\ click_enabled' = FALSE
    /\ UNCHANGED click_interval
    /\ UNCHANGED hist_vars
    /\ UNCHANGED fb_vars
    /\ UNCHANGED << audio_vars, play_idx, bpm_in, sweep_bpm, wave_vars,
                    playhead_pos, worker_vars, cb_vars, running >>

\* toggle_play, stop branch, from the return of stream.stop() to the return
toggle_play_stopped ==
    /\ running
    /\ ui_pc = "stopping"
    /\ cb_pc = "idle"
    /\ stream' = "None"
    /\ open_streams' = open_streams - 1
    /\ play_timer' = FALSE
    /\ sweep_timer' = FALSE
    /\ sweep_progress' = 0
    /\ play_btn' = "Initialize Playback"
    /\ ui_pc' = "idle"
    /\ UNCHANGED hist_vars
    /\ UNCHANGED metro_vars
    /\ UNCHANGED fb_vars
    /\ UNCHANGED << audio_vars, play_idx, bpm_in, sweep_bpm, wave_vars,
                    playhead_pos, worker_vars, cb_vars, running >>

\* the cursor toggle_play's start branch begins streaming from
StartCursor(idx) == 0

\* toggle_play, start branch: no active stream and a buffer is loaded. The
\* stream object self.stream referred to, if any, is dropped as it is.
toggle_play_start ==
    /\ UiIdle
    /\ ~StreamActive
    /\ current_audio.loaded
    /\ open_streams < MaxStreams
    /\ play_idx' = StartCursor(play_idx)
    /\ stream' = "active"
    /\ open_streams' = open_streams + 1
    /\ play_timer' = TRUE
    /\ sweep_bpm' = SweepFromText(bpm_in)
    /\ sweep_timer' = TRUE
    /\ play_btn' = "Cease Playback"
    /\ h_clean' = TRUE
    /\ h_frames' = 0
    /\ UNCHANGED metro_vars
    /\ UNCHANGED fb_vars
    /\ UNCHANGED << audio_vars, bpm_in, sweep_progress, wave_vars,
                    playhead_pos, worker_vars, ui_pc, cb_vars, running >>

\* toggle_play with no active stream and no buffer: returns at once
toggle_play_nobuffer ==
    /\ UiIdle
    /\ ~StreamActive
    /\ ~current_audio.loaded
    /\ UNCHANGED vars

\* the paths of toggle_play on which no call raises
toggle_play ==
    \/ toggle_play_stop
    \/ toggle_play_start
    \/ toggle_play_nobuffer

\* the calls of the start branch that acquire the output device:
\* sd.OutputStream(...) ("open") and self.stream.start() ("start")
FailStages == {"open", "start"}

\* toggle_play, start branch, when the call named by stage raises
\* sd.PortAudioError: the cursor is already rewound; at "start" self.stream
\* already refers to the new, opened, inactive stream. No handler catches the
\* exception and no sys.excepthook is installed, so it leaves the slot and
\* PyQt6 ends the process (qFatal).
toggle_play_start_fail(stage) ==
    /\ UiIdle
    /\ ~StreamActive
    /\ current_audio.loaded
    /\ stage = "start" => open_streams < MaxStreams
    /\ play_idx' = StartCursor(play_idx)
    /\ stream' = IF stage = "start" THEN "created" ELSE stream
    /\ open_streams' = IF stage = "start" THEN open_streams + 1 ELSE open_streams
    /\ running' = FALSE
    /\ Interrupted
    /\ UNCHANGED metro_vars
    /\ UNCHANGED fb_vars
    /\ UNCHANGED << audio_vars, play_timer, play_btn, bpm_in, sweep_vars,
                    wave_vars, playhead_pos, worker_vars, ui_pc, cb_vars >>

\* audio_callback: "audio = self.current_audio; n = len(audio);
\* start = self.play_idx". No UI handler writes both attributes, so a handler
\* running between the two reads has the effect of one running before or
\* after both.
callback_enter(frames) ==
    /\ running
    /\ StreamActive
    /\ ui_pc = "idle"
    /\ cb_pc = "idle"
    /\ cb_audio' = current_audio.data
    /\ cb_frames' = frames
    /\ cb_start' = play_idx
    /\ cb_pc' = "write"
    /\ UNCHANGED hist_vars
    /\ UNCHANGED metro_vars
    /\ UNCHANGED fb_vars
    /\ UNCHANGED << audio_vars, stream, open_streams, play_idx, play_timer,
                    play_btn, bpm_in, sweep_vars, wave_vars, playhead_pos,
                    worker_vars, ui_pc, outdata, running >>

\* audio_callback: "end = min(start + frames, n)"
ChunkEnd(start, frames, n) == Min(start + frames, n)

\* audio_callback: "chunk = audio[start:end]"
Chunk(audio, start, frames) == Slice(audio, start, ChunkEnd(start, frames, Len(audio)))

\* Faulty variant: the tail of a short block is not zero-filled
OutBlock_NoZeroFill(chunk, frames) == chunk

\* the output block: the chunk, zero-filled up to the frames requested
OutBlock(chunk, frames) ==
    IF Len(chunk) < frames THEN chunk \o Zeros(frames - Len(chunk)) ELSE chunk

\* Faulty variant: the callback stores len(chunk) instead of end
NextCursor_ChunkLen(audio, start, frames) ==
    IF Len(Chunk(audio, start, frames)) < frames
        THEN 0
        ELSE Len(Chunk(audio, start, frames))

\* Faulty variant: the callback does not reset the cursor on a short chunk
NextCursor_NoWrap(audio, start, frames) == ChunkEnd(start, frames, Len(audio))

\* Faulty variant: a cursor at or past the buffer's end is kept
NextCursor_KeepPastEnd(audio, start, frames) ==
    IF Len(Chunk(audio, start, frames)) < frames
        THEN IF start >= Len(audio) THEN start ELSE 0
        ELSE ChunkEnd(start, frames, Len(audio))

\* Faulty variant: the callback stores the cursor it read
NextCursor_Stuck(audio, start, frames) == start

\* the cursor audio_callback stores: 0 with CallbackStop on a short chunk,
\* otherwise end
NextCursor(audio, start, frames) ==
    IF Len(Chunk(audio, start, frames)) < frames
        THEN 0
        ELSE ChunkEnd(start, frames, Len(audio))

\* Faulty variant: the callback returns normally on a short chunk
StreamAfterCallback_NoStop(audio, start, frames) == "active"

\* the stream after the callback: "raise sd.CallbackStop()" on a short chunk
\* ends it, a normal return leaves it active
StreamAfterCallback(audio, start, frames) ==
    IF Len(Chunk(audio, start, frames)) < frames THEN "finished" ELSE "active"

\* audio_callback: the slice and the stores into outdata
callback_write ==
    /\ cb_pc = "write"
    /\ outdata' = OutBlock(Chunk(cb_audio, cb_start, cb_frames), cb_frames)
    /\ cb_pc' = "store"
    /\ UNCHANGED hist_vars
    /\ UNCHANGED metro_vars
    /\ UNCHANGED fb_vars
    /\ UNCHANGED << audio_vars, stream, open_streams, play_idx, play_timer,
                    play_btn, bpm_in, sweep_vars, wave_vars, playhead_pos,
                    worker_vars, ui_pc, cb_audio, cb_frames, cb_start, running >>

\* audio_callback: "self.play_idx = ..." and the return, or
\* "raise sd.CallbackStop()", which ends the stream; the block is handed
\* to the device
callback_store ==
    /\ cb_pc = "store"
    /\ outdata' = << >>
    /\ play_idx' = NextCursor(cb_audio, cb_start, cb_frames)
    /\ stream' = StreamAfterCallback(cb_audio, cb_start, cb_frames)
    /\ cb_pc' = "idle"
    /\ cb_audio' = << >>
    /\ cb_frames' = 0
    /\ cb_start' = 0
    /\ h_clean' = h_clean
    /\ h_frames' = IF h_clean THEN h_frames + cb_frames ELSE 0
    /\ UNCHANGED metro_vars
    /\ UNCHANGED fb_vars
    /\ UNCHANGED << audio_vars, open_streams, play_timer, play_btn, bpm_in,
                    sweep_vars, wave_vars, playhead_pos, worker_vars, ui_pc,
                    running >>

\* CyberReverseEngine.sync_ui, on a timeout of play_timer
sync_ui ==
    /\ UiIdle
    /\ play_timer
    /\ IF stream # "None" /\ ~StreamActive
          THEN /\ play_btn' = "Initialize Playback"
               /\ sweep_timer' = FALSE
               /\ sweep_progress' = 0
               /\ UNCHANGED << sweep_bpm, playhead_pos >>
          ELSE IF ~current_audio.loaded
          THEN UNCHANGED << play_btn, sweep_vars, playhead_pos >>
          ELSE /\ update_playhead(play_idx, audio_len)
               /\ sweep_bpm' = SweepFromText(bpm_in)
               /\ UNCHANGED << play_btn, sweep_timer, sweep_progress >>
    /\ UNCHANGED hist_vars
    /\ UNCHANGED metro_vars
    /\ UNCHANGED fb_vars
    /\ UNCHANGED << audio_vars, stream, open_streams, play_idx, play_timer,
                    bpm_in, wave_vars, worker_vars, ui_pc, cb_vars, running >>

\* snap_to_ms: the clamped ms, as a sample position scaled by WidgetWidth,
\* for the ms mousePressEvent computes from pointer column x
ClampedMs(x) == Max(0, Min(x * audio_len, Len(current_audio.data) * WidgetWidth))

\* Faulty variant: the seek clamps to len instead of len - 1
SeekCursor_ToLen(sample_pos, n) == Max(0, Min(sample_pos, n))

\* snap_to_ms: "max(0, min(sample_pos, len(self.current_audio) - 1))"
SeekCursor(sample_pos, n) == Max(0, Min(sample_pos, n - 1))

\* CyberReverseEngine.snap_to_ms(ms), called by mousePressEvent
snap_to_ms(x) ==
    /\ current_audio.loaded
    /\ play_idx' = SeekCursor(ClampedMs(x) \div WidgetWidth, Len(current_audio.data))
    /\ update_playhead(ClampedMs(x), WidgetWidth * audio_len)
    /\ IF StreamActive
          THEN /\ sweep_bpm' = SweepFromText(bpm_in)
               /\ sweep_timer' = TRUE
               /\ UNCHANGED sweep_progress
          ELSE /\ sweep_timer' = FALSE
               /\ sweep_progress' = 0
               /\ UNCHANGED sweep_bpm
    /\ Interrupted
    /\ UNCHANGED metro_vars
    /\ UNCHANGED fb_vars
    /\ UNCHANGED << audio_vars, stream, open_streams, play_timer, play_btn,
                    bpm_in, wave_vars, worker_vars, ui_pc, cb_vars, running >>

\* NeonWaveform.mousePressEvent, left button at column x: seeks
mousePressEvent_left(x) ==
    /\ UiIdle
    /\ peaks.loaded
    /\ Len(peaks.data) # 0
    /\ snap_to_ms(x)

\* mousePressEvent with no envelope to click on: returns at once
mousePressEvent_nopeaks ==
    /\ UiIdle
    /\ ~(peaks.loaded /\ Len(peaks.data) # 0)
    /\ UNCHANGED vars

\* int(a / b) for b > 0: Python's int() truncates toward zero
TruncDiv(a, b) == IF a >= 0 THEN a \div b ELSE 0 - ((0 - a) \div b)

\* "center = int((x / self.width()) * self.total_peaks)"
ZoomCenter(x, total) == TruncDiv(x * total, WidgetWidth)

\* "win = int(self.total_peaks * 0.15)"
ZoomWin(total) == (total * 15) \div 100

\* "self.sel_start = max(0, center - win // 2)"
ZoomStart(x, total) == Max(0, ZoomCenter(x, total) - (ZoomWin(total) \div 2))

\* "self.sel_end = min(self.total_peaks, self.sel_start + win)"
ZoomEnd(x, total) == Min(total, ZoomStart(x, total) + ZoomWin(total))

\* Faulty variant: a right click in the zoomed view re-centres the window
mousePressEvent_right_Recentre(x) ==
    /\ UiIdle
    /\ peaks.loaded
    /\ Len(peaks.data) # 0
    /\ zoom_active' = TRUE
    /\ sel_start' = ZoomStart(x, total_peaks)
    /\ sel_end' = ZoomEnd(x, total_peaks)
    /\ UNCHANGED hist_vars
    /\ UNCHANGED metro_vars
    /\ UNCHANGED fb_vars
    /\ UNCHANGED << audio_vars, stream, open_streams, play_idx, play_timer,
                    play_btn, bpm_in, sweep_vars, peaks, audio_len,
                    playhead_pos, worker_vars, ui_pc, cb_vars, running >>

\* NeonWaveform.mousePressEvent, right button at column x: zooms to the
\* region around x, or, in the zoomed view, returns to the full range
mousePressEvent_right(x) ==
    /\ UiIdle
    /\ peaks.loaded
    /\ Len(peaks.data) # 0
    /\ IF ~zoom_active
          THEN /\ zoom_active' = TRUE
               /\ sel_start' = ZoomStart(x, total_peaks)
               /\ sel_end' = ZoomEnd(x, total_peaks)
          ELSE /\ zoom_active' = FALSE
               /\ sel_start' = 0
               /\ sel_end' = total_peaks
    /\ UNCHANGED hist_vars
    /\ UNCHANGED metro_vars
    /\ UNCHANGED fb_vars
    /\ UNCHANGED << audio_vars, stream, open_streams, play_idx, play_timer,
                    play_btn, bpm_in, sweep_vars, peaks, audio_len,
                    playhead_pos, worker_vars, ui_pc, cb_vars, running >>

\* NeonWaveform.mouseMoveEvent at column x: in the zoomed view the window
\* follows the pointer
mouseMoveEvent(x) ==
    /\ UiIdle
    /\ IF zoom_active /\ peaks.loaded
          THEN /\ sel_start' = ZoomStart(x, total_peaks)
               /\ sel_end' = ZoomEnd(x, total_peaks)
          ELSE UNCHANGED << sel_start, sel_end >>
    /\ UNCHANGED hist_vars
    /\ UNCHANGED metro_vars
    /\ UNCHANGED fb_vars
    /\ UNCHANGED << audio_vars, stream, open_streams, play_idx, play_timer,
                    play_btn, bpm_in, sweep_vars, peaks, audio_len,
                    zoom_active, playhead_pos, worker_vars, ui_pc, cb_vars,
                    running >>

\* CyberReverseEngine.closeEvent: stops and closes self.stream, if any;
\* stream.stop() returns once the callback in flight has returned
closeEvent ==
    /\ UiIdle
    /\ cb_pc = "idle"
    /\ stream' = IF stream = "None" THEN "None" ELSE "closed"
    /\ open_streams' = IF stream = "None" THEN open_streams ELSE open_streams - 1
    /\ running' = FALSE
    /\ UNCHANGED hist_vars
    /\ UNCHANGED metro_vars
    /\ UNCHANGED fb_vars
    /\ UNCHANGED << audio_vars, play_idx, play_timer, play_btn, bpm_in,
                    sweep_vars, wave_vars, playhead_pos, worker_vars, ui_pc,
                    cb_vars >>

\* ------------------------------------------------------------------ spec
\* TempoWorker.run emits the fixed default for a signal of fewer than 2048
\* samples, which the files of Spec and WaveSpec are
ShortFileTempos == {Milli(TempoDefault)}

Next ==
    \/ \E y \in Files : tempo_pending < MaxJobs /\ load_file(y)
    \/ \E bpm \in ShortFileTempos : on_tempo_detected(bpm)
    \/ \E mode \in Modes : trigger_process(mode)
    \/ \E params \in BagToSet(rev_pending), ok \in BOOLEAN : on_rev_done(params, ok)
    \/ reset_audio
    \/ toggle_play_stop
    \/ toggle_play_stopped
    \/ toggle_play_start
    \/ toggle_play_nobuffer
    \/ \E stage \in FailStages : toggle_play_start_fail(stage)
    \/ \E frames \in FrameCounts : callback_enter(frames)
    \/ callback_write
    \/ callback_store
    \/ sync_ui
    \/ \E x \in PointerXs : mousePressEvent_left(x)
    \/ mousePressEvent_nopeaks
    \/ closeEvent

Spec == Init /\ [][Next]_vars

\* The waveform widget and the handlers that replace the buffer it shows,
\* with no playback
WaveNext ==
    \/ \E y \in WaveFiles : tempo_pending < MaxJobs /\ load_file(y)
    \/ \E bpm \in ShortFileTempos : on_tempo_detected(bpm)
    \/ \E mode \in Modes : trigger_process(mode)
    \/ \E params \in BagToSet(rev_pending), ok \in BOOLEAN : on_rev_done(params, ok)
    \/ reset_audio
    \/ \E x \in PointerXs : mousePressEvent_left(x)
    \/ \E x \in PointerXs : mousePressEvent_right(x)
    \/ \E x \in PointerXs : mouseMoveEvent(x)
    \/ mousePressEvent_nopeaks

WaveSpec == Init /\ [][WaveNext]_vars

\* The BPM field, the metronome and the handlers that write the BPM, with
\* no playback. The tempo handlers never read the samples: here load_file
\* stands for loading a recording of any length, and the estimate may be
\* any of TempoValues.
TempoNext ==
    \/ \E y \in Files : tempo_pending < MaxTempoJobs /\ load_file(y)
    \/ \E bpm \in TempoValues : on_tempo_detected(bpm)
    \/ \E txt \in TypedTexts : bpm_in_editingFinished(txt)
    \/ half_bpm
    \/ double_bpm
    \/ toggle_metronome

TempoSpec == Init /\ [][TempoNext]_vars

\* playback with the sweep indicator and the metronome
PlayNext ==
    \/ \E y \in Files : tempo_pending < MaxJobs /\ load_file(y)
    \/ toggle_play_stop
    \/ toggle_play_stopped
    \/ toggle_play_start
    \/ \E frames \in FrameCounts : callback_enter(frames)
    \/ callback_write
    \/ callback_store
    \/ sync_ui
    \/ \E x \in PointerXs : mousePressEvent_left(x)
    \/ animate
    \/ \E txt \in PlayTexts : bpm_in_editingFinished(txt)
    \/ toggle_metronome

PlaySpec == Init /\ [][PlayNext]_vars

\* playback alone
RunNext ==
    \/ \E y \in Files : tempo_pending < MaxJobs /\ load_file(y)
    \/ toggle_play_stop
    \/ toggle_play_stopped
    \/ toggle_play_start
    \/ \E frames \in FrameCounts : callback_enter(frames)
    \/ callback_write
    \/ callback_store
    \/ sync_ui
    \/ \E x \in PointerXs : mousePressEvent_left(x)

\* the device thread's scheduling: while the stream is active the device
\* keeps requesting blocks, a callback that has begun runs to its return,
\* and stream.stop() returns once no callback is in flight
RunFairness ==
    /\ WF_vars(\E frames \in FrameCounts : callback_enter(frames))
    /\ WF_vars(callback_write)
    /\ WF_vars(callback_store)
    /\ WF_vars(toggle_play_stopped)

RunSpec == Init /\ [][RunNext]_vars /\ RunFairness

\* ---------------------------------------------------------------- claims
\* a step that seeks: a left click on the waveform
SeekStep == \E x \in PointerXs : mousePressEvent_left(x)

\* a step in which audio_callback stores the cursor and returns
StoreStep == cb_pc = "store" /\ cb_pc' = "idle"

\* a step in which toggle_play's start branch opens a stream
StartStep == stream # "active" /\ stream' = "active"

\* a step in which toggle_play's start branch fails to acquire the device
StartFailStep == \E stage \in FailStages : toggle_play_start_fail(stage)

\* C1: in every reachable state the play cursor lies within the current
\* buffer: 0 <= play_idx <= len(current_audio).
C1_CursorWithinBuffer ==
    current_audio.loaded =>
        (0 <= play_idx /\ play_idx <= Len(current_audio.data))

C3_CompletionOnce ==
    [][ /\ stream # "active" => (cb_pc = "idle" /\ cb_pc' = "idle")
        /\ (StoreStep /\ Len(cb_audio) - cb_start < cb_frames) => stream' # "active"
        /\ StartStep => open_streams' = open_streams + 1
      ]_vars

\* C3 witness: a run has completed naturally and the poller is still running.
C3_Witness == stream = "finished" /\ play_timer /\ play_idx = 0 /\ cb_pc = "idle"

\* C4: start begins streaming from the current cursor: a start leaves
\* play_idx as it was (0 on a fresh start, preserved on resume).
C4_StartKeepsCursor == [][ StartStep => play_idx' = play_idx ]_vars

C6_SeekClamps ==
    [][ SeekStep =>
            /\ 0 <= play_idx'
            /\ play_idx' < Len(current_audio.data)
            /\ UNCHANGED << stream, open_streams, play_timer, ui_pc >>
      ]_vars

\* C6 witness: a seek right of the widget, during playback, has put the
\* cursor on the last sample.
C6_Witness ==
    /\ StreamActive
    /\ Len(current_audio.data) > 0
    /\ play_idx = Len(current_audio.data) - 1
    /\ playhead_pos = WidgetWidth
    /\ sweep_timer

\* C7: a seek is never lost: when a seek has changed the cursor between a
\* callback's read and its store, the callback stores the seek position or
\* that position advanced by its frames.
C7_SeekNeverLost ==
    [][ (StoreStep /\ play_idx # cb_start) =>
            (play_idx' = play_idx \/ play_idx' = play_idx + cb_frames) ]_vars

\* C8: the cursor never decreases, except in a step that is a seek, a start
\* (whether or not the device is acquired), a natural completion, or the
\* store of the callback that was in flight when a seek moved the cursor.
C8_MonotoneCursor ==
    [][ play_idx' < play_idx =>
            \/ SeekStep
            \/ StartStep
            \/ StartFailStep
            \/ (StoreStep /\ stream' = "finished")
            \/ (StoreStep /\ play_idx # cb_start)
      ]_vars

\* C8 witness: during playback a callback that read a cursor beyond 0 is
\* about to advance it.
C8_Witness ==
    /\ StreamActive
    /\ cb_pc = "store"
    /\ cb_start > 0
    /\ play_idx = cb_start
    /\ cb_start + cb_frames <= Len(cb_audio)

\* C9: in a run with no seek, stop or buffer replacement since its start,
\* between callbacks the cursor equals the frames requested so far as long as
\* they fit in the buffer, and once more frames were requested than the
\* buffer holds the stream is inactive and the cursor is back at 0.
C9_EndToEnd ==
    h_clean =>
        /\ (StreamActive /\ cb_pc = "idle") =>
              (play_idx = h_frames /\ h_frames <= Len(current_audio.data))
        /\ stream = "finished" =>
              (play_idx = 0 /\ h_frames > Len(current_audio.data))

\* C9 witness: an undisturbed run over the long file has played to its end.
C9_Witness ==
    /\ h_clean
    /\ stream = "finished"
    /\ Len(current_audio.data) = MaxLen
    /\ h_frames > MaxLen

\* C10: at no time is more than one stream opened and not closed.
C10_OneOpenStream == open_streams <= 1

\* C11: when acquiring or starting the output device fails during start, the
\* transport stays stopped and the session continues: no active stream is
\* recorded, the poll timer and the sweep are not started, the play button is
\* not changed, and the application keeps running.
C11_StartFailureLeavesStopped ==
    [][ StartFailStep =>
            /\ running'
            /\ stream' # "active"
            /\ UNCHANGED << play_timer, sweep_timer, play_btn >>
      ]_vars

\* a step of toggle_play or of a click on the waveform taken while the
\* buffer is absent or holds no samples
NoBufferStep ==
    /\ ui_pc = "idle"
    /\ ~StreamActive
    /\ ~current_audio.loaded \/ Len(current_audio.data) = 0
    /\ \/ toggle_play
       \/ mousePressEvent_nopeaks
       \/ \E x \in PointerXs : mousePressEvent_left(x)

\* C12: an attempt to play or to seek while the buffer is absent or has zero
\* length changes nothing: no stream is opened and the cursor, the poll
\* timer, the sweep and the playhead are unchanged.
C12_NoBufferNoChange ==
    [][ NoBufferStep =>
            UNCHANGED << stream, open_streams, play_idx, play_timer,
                         sweep_vars, playhead_pos >>
      ]_vars

\* a step that replaces the sample buffer
ReplaceStep ==
    \/ \E y \in WaveFiles : load_file(y)
    \/ \E params \in BagToSet(rev_pending), ok \in BOOLEAN : on_rev_done(params, ok)
    \/ reset_audio

\* C13: whenever the buffer is replaced, the derived state is rebuilt: the
\* envelope is that of the new buffer, the zoom selection is inactive and
\* spans the full range, and the cursor is a position of the new buffer.
C13_ReplaceRebuildsDerived ==
    [][ ReplaceStep =>
            /\ peaks' = Audio(PeakEnvelope(current_audio'.data))
            /\ audio_len' = Len(current_audio'.data)
            /\ ~zoom_active'
            /\ sel_start' = 0
            /\ sel_end' = Len(peaks'.data)
            /\ play_idx' <= Len(current_audio'.data)
      ]_vars

\* C14: the envelope is normalized by its global maximum: a silent buffer
\* gives all-zero peaks, and otherwise the largest peak is exactly 1.0 (full
\* scale) and every peak is at most 1.0.
C14_PeaksNormalized ==
    (peaks.loaded /\ total_peaks > 0) =>
        \/ \A w \in 1..total_peaks : peaks.data[w] = 0
        \/ /\ SeqMax(peaks.data) = FullScale
           /\ \A w \in 1..total_peaks : peaks.data[w] <= FullScale

\* C15: while zoom is active the selection satisfies
\* 0 <= sel_start < sel_end <= total_peaks.
C15_ZoomSelectionOrdered ==
    zoom_active =>
        (0 <= sel_start /\ sel_start < sel_end /\ sel_end <= total_peaks)

\* round(total_peaks * 0.15)
RoundedWin(total) == (total * 15 + 50) \div 100

\* C16: entering the zoomed view at x = 0 gives sel_start = 0, at x = width
\* gives sel_end = total_peaks, and at every x the window width is within 1
\* of round(total_peaks * 0.15).
C16_ZoomWindowEdges ==
    [][ \A x \in PointerXs :
            (~zoom_active /\ mousePressEvent_right(x)) =>
                /\ x = 0 => sel_start' = 0
                /\ x = WidgetWidth => sel_end' = total_peaks
                /\ Abs((sel_end' - sel_start') - RoundedWin(total_peaks)) <= 1
      ]_vars

\* C17: with an envelope to show, a right click in the full view enters the
\* zoomed view, a right click in the zoomed view returns to the full range
\* (zoom inactive, selection 0..total_peaks), and pointer movement and left
\* clicks never change zoom_active.
C17_ZoomToggles ==
    [][ /\ (\E x \in PointerXs : mousePressEvent_right(x)) =>
              /\ zoom_active' = ~zoom_active
              /\ zoom_active => (sel_start' = 0 /\ sel_end' = total_peaks)
        /\ ((\E x \in PointerXs : mouseMoveEvent(x)) \/ SeekStep
                \/ mousePressEvent_nopeaks) =>
              zoom_active' = zoom_active
      ]_vars

\* C17 witness: the zoomed view shows a window of several peaks inside the
\* envelope, and a seek has been made in that view.
C17_Witness ==
    /\ zoom_active
    /\ sel_start > 0
    /\ sel_end < total_peaks
    /\ sel_end - sel_start > 1
    /\ play_idx > 0

\* a step that changes the tempo: manual entry, half_bpm, double_bpm, or the
\* arrival of a tempo estimate
TempoStep ==
    \/ \E txt \in TypedTexts : bpm_in_editingFinished(txt)
    \/ half_bpm
    \/ double_bpm
    \/ \E bpm \in TempoValues : on_tempo_detected(bpm)

\* clamp(v, 20, 600), in thousandths of a BPM
ClampBpm(v) == Max(Milli(20), Min(v, Milli(600)))

\* C18: after every tempo mutation the BPM held by the BPM field, the BPM of
\* the sweep and the BPM the running metronome's interval was computed from
\* lie in [20, 600].
C18_BpmClamped ==
    [][ TempoStep =>
            /\ bpm_in'.numeric =>
                  (Milli(20) <= bpm_in'.val /\ bpm_in'.val <= Milli(600))
            /\ Milli(20) <= sweep_bpm' /\ sweep_bpm' <= Milli(600)
            /\ click_enabled' =>
                  /\ ClickInterval(Milli(600)) <= click_interval'
                  /\ click_interval' <= ClickInterval(Milli(20))
      ]_vars

\* C19: entering 0, a negative number or non-numeric text is rejected: the
\* BPM field, the metronome interval and the sweep BPM keep their values.
C19_InvalidBpmRejected ==
    [][ \A txt \in TypedTexts :
            (bpm_in_editingFinished(txt) /\ (~txt.numeric \/ txt.val <= 0)) =>
                UNCHANGED << bpm_in, click_interval, sweep_bpm >>
      ]_vars

\* C20: half_bpm sets the BPM to clamp(bpm * 0.5, 20, 600) and double_bpm
\* sets it to clamp(bpm * 2.0, 20, 600), as shown with two decimals.
C20_HalveDoubleClamp ==
    [][ /\ (half_bpm /\ bpm_in.numeric) =>
              /\ bpm_in'.numeric
              /\ bpm_in'.val \in Format2(ClampBpm(bpm_in.val \div 2))
        /\ (double_bpm /\ bpm_in.numeric) =>
              (bpm_in'.numeric /\ bpm_in'.val = ClampBpm(2 * bpm_in.val))
      ]_vars

\* C21: whenever the metronome is enabled and the BPM field holds a number,
\* the click timer's interval is int(60000 / BPM) for that number: no BPM
\* change leaves a stale interval running.
C21_IntervalFollowsBpm ==
    (click_enabled /\ bpm_in.numeric) =>
        click_interval = ClickInterval(bpm_in.val)

\* C22: when the transform fails, the worker emits the buffer it was given,
\* tagged "ERROR_FALLBACK", a tag no successful transform carries; on_rev_done
\* then makes that buffer the current one and leaves original_audio as it is.
C22_FallbackKeepsBuffer ==
    [][ \A params \in BagToSet(rev_pending) :
            /\ ReverseWorker_run(params, FALSE).mode = "ERROR_FALLBACK"
            /\ ReverseWorker_run(params, TRUE).mode # "ERROR_FALLBACK"
            /\ on_rev_done(params, FALSE) =>
                  /\ current_audio' = Audio(params.audio)
                  /\ peaks' = Audio(PeakEnvelope(params.audio))
                  /\ original_audio' = original_audio
      ]_vars

\* C22 witness: a failed transform of a reversed, non-empty buffer has been
\* delivered.
C22_Witness ==
    /\ h_fallback
    /\ rev_pending = EmptyBag
    /\ Len(current_audio.data) > 1
    /\ current_audio.data = Reverse(original_audio.data)

\* a step that delivers the estimate of a TempoWorker started for a buffer
\* that has been replaced since: one estimate fewer is pending, and whether
\* the worker of the last load_file is pending has not changed
StaleTempoStep ==
    /\ tempo_pending' = tempo_pending - 1
    /\ tempo_fresh' = tempo_fresh

\* C23: a tempo estimate that arrives after a newer buffer has been loaded
\* is ignored: it overwrites neither the BPM field nor the sweep BPM.
C23_StaleTempoIgnored ==
    [][ StaleTempoStep => UNCHANGED << bpm_in, sweep_bpm >> ]_vars

\* C24: every run of the poller sync_ui with a non-empty buffer loaded leaves
\* the displayed playhead at the position that corresponds to play_idx, whatever
\* changed play_idx since the previous run (callback advance, seek, or the
\* reset to 0 on natural completion).
C24_PlayheadFollowsCursor ==
    [][ (sync_ui /\ current_audio.loaded /\ audio_len > 0) =>
            playhead_pos' = PlayheadColumn(play_idx, audio_len) ]_vars

\* C25: in every state the sweep phase is one of the phases of [0, 1), and
\* while the sweep's timer is stopped (after a stop, or after the poller has
\* seen the stream finish) the phase is 0.
C25_SweepPhaseInRange ==
    /\ sweep_progress \in 0..(PhaseSteps - 1)
    /\ ~sweep_timer => sweep_progress = 0

\* a step of the transport: the stream, the cursor, the callback in flight
\* or the stop in progress changes (start, stop, seek, callback, natural
\* completion)
TransportStep ==
    \/ stream' # stream
    \/ open_streams' # open_streams
    \/ play_idx' # play_idx
    \/ cb_pc' # cb_pc
    \/ ui_pc' # ui_pc

\* a step of the metronome: its enabled flag or its click interval changes
MetronomeStep == click_enabled' # click_enabled \/ click_interval' # click_interval

\* C26: the metronome and the transport are independent: a step of the
\* transport leaves the metronome's enabled flag and click interval as they
\* are, and a step of the metronome leaves the stream, its active flag and
\* the cursor as they are.
C26_MetronomeIndependent ==
    [][ /\ TransportStep => UNCHANGED metro_vars
        /\ MetronomeStep => UNCHANGED << stream, open_streams, play_idx >>
      ]_vars

\* C26 witness: the stream has played to its end with the metronome on at
\* a BPM typed during playback.
C26_Witness ==
    /\ stream = "finished"
    /\ click_enabled
    /\ click_interval = ClickInterval(Milli(40))

\* C27: the stream becomes active only by toggle_play's start branch and
\* stops being active only by its stop branch or by the callback that ends
\* the stream at the buffer's end; and with callbacks delivered fairly the
\* stream does not stay active forever unless seeks keep occurring.
C27_PlaybackTerminates ==
    /\ [][ /\ (~StreamActive /\ StreamActive') => toggle_play_start
           /\ (StreamActive /\ ~StreamActive') =>
                 \/ toggle_play_stopped
                 \/ StoreStep /\ stream' = "finished"
       ]_vars
    /\ \/ []<>(~StreamActive)
       \/ []<><< SeekStep >>_vars

\* C27 witness: a stream started on the longest file has reached the
\* buffer's end and finished by itself.
C27_Witness ==
    /\ stream = "finished"
    /\ Len(current_audio.data) = MaxLen
    /\ play_idx = 0
    /\ cb_pc = "idle"

\* C28: the envelope of the current buffer has windows of
\* max(1, floor(len / 2000)) samples, and every peak, as a fraction of full
\* scale, is at least |s| / globalMax for every sample s of its window,
\* globalMax being the largest absolute sample of the buffer.
C28_PeaksDominateNormalized ==
    (peaks.loaded /\ current_audio.loaded) =>
        LET audio == current_audio.data
            step == WindowStep(Len(audio))
            globalMax == SeqMax([j \in 1..Len(audio) |-> Abs(audio[j])])
        IN  /\ total_peaks = (Len(audio) + step - 1) \div step
            /\ \A j \in 1..Len(audio) :
                  globalMax > 0 =>
                      peaks.data[((j - 1) \div step) + 1] * globalMax
                          >= Abs(audio[j]) * FullScale

\* C29: a transform result, processed or fallback, is applied only to the
\* buffer it was computed from: when current_audio is no longer the buffer
\* the transform was requested for, on_rev_done leaves current_audio alone.
C29_StaleResultDropped ==
    [][ \A params \in BagToSet(rev_pending), ok \in BOOLEAN :
            (on_rev_done(params, ok) /\ current_audio # Audio(params.audio)) =>
                current_audio' = current_audio
      ]_vars

====
